---- MODULE Spec2Model ----
(***************************************************************************)
(* Block editor core: the useBlocks hook (document, bounded undo/redo      *)
(* history, focus relay) and the Editor's rewrite workflow                 *)
(* (handleSelectionAction).                                                *)
(*                                                                         *)
(* Execution model.  React runs one event handler to completion and then   *)
(* re-renders before the next event is delivered, so every action below is *)
(* one event followed by the render.  Callbacks created by a render close  *)
(* over that render's historyIndex; the operators that model the hook's    *)
(* callbacks therefore take the captured index `hi` as a parameter.  For a *)
(* synchronous event hi is the current historyIndex; the continuation of   *)
(* handleSelectionAction after its await runs the callbacks captured when  *)
(* the rewrite was triggered.  history, isUndoRedo, focusBlockId and       *)
(* cursorPosition are refs and are always read and written live.  State    *)
(* updater functions run once each, in the order they were enqueued.       *)
(*                                                                         *)
(* Text is a sequence of one-character strings.  Indices into history are  *)
(* 0-based as in the source; history[i] of the source is history[i + 1]    *)
(* here.                                                                   *)
(***************************************************************************)
EXTENDS Integers, Sequences, FiniteSets, TLC

VARIABLES
    blocks,          \* useState<Block[]>: the Document
    history,         \* useRef<Block[][]>: the History Log
    historyIndex,    \* useState<number>: the cursor, 0-based
    isUndoRedo,      \* useRef<boolean>: the replay flag
    focusBlockId,    \* useRef<string | null>
    cursorPosition,  \* useRef<number>
    title,           \* Editor: useState(''), the text of the title element
    isRewriting,     \* Editor: useState(false), the in-flight flag
    selectionInfo,   \* Editor: useState<SelectionInfo | null>, the overlay state
    skipInputHandling, \* Editor: useRef(false)
    pending,         \* the rewriteText calls awaiting their response, each with
                     \* the closure of the handleSelectionAction that made it
    lastOp,          \* history variable: the event that produced this state
    lastCall,        \* history variable: its arguments and its return value
    quiet,           \* history variable: that event changed nothing
    edits,           \* history variable: number of effective edits so far
    script           \* history variable: progress of the undo/redo round trip

store_vars == <<blocks, history, historyIndex, isUndoRedo, focusBlockId, cursorPosition>>
editor_vars == <<title, isRewriting, selectionInfo, skipInputHandling, pending>>
vars == <<blocks, history, historyIndex, isUndoRedo, focusBlockId, cursorPosition,
          title, isRewriting, selectionInfo, skipInputHandling, pending,
          lastOp, lastCall, quiet, edits, script>>

----------------------------------------------------------------------------
(* Bounds of the model *)

\* events of one run that change the Document, the History Log or the title
MaxEdits == 2
\* size of the pool generateId() draws from
NumGenIds == 1
\* edits of the long run of SpecLong
MaxTyped == 101

\* presses of Enter before the rewrite in SpecSplitRewrite
MaxSplits == 2
\* events of one run of SpecUndoRewrite that change the Document
MaxUndoRewrite == 4
\* events of one run of SpecUndoSplit that change the Document
MaxUndoSplit == 4

(* Program constants *)

MAX_HISTORY_SIZE == 100

----------------------------------------------------------------------------
(* Values *)

NULL == "<null>"


\* Texts an input event can leave in a block
InputTexts == {<<"a">>, <<" ">>}

Min(a, b) == IF a < b THEN a ELSE b
Max(a, b) == IF a > b THEN a ELSE b

\* Array.prototype.slice(start, end) for 0 <= start
slice(s, start, end) == SubSeq(s, start + 1, Min(end, Len(s)))

\* Array.prototype.slice(-n) for n > 0
sliceLast(s, n) == SubSeq(s, Max(Len(s) - n, 0) + 1, Len(s))

\* Array.prototype.findIndex(b => b.id === id): 0-based, -1 when absent
findIndex(doc, id) ==
    IF \E i \in 1..Len(doc) : doc[i].id = id
    THEN (CHOOSE i \in 1..Len(doc) :
              doc[i].id = id /\ \A j \in 1..(i - 1) : doc[j].id # id) - 1
    ELSE -1

\* Array.prototype.filter(b => b.id !== id)
RECURSIVE filterOut(_, _)
filterOut(doc, id) ==
    IF doc = <<>> THEN <<>>
    ELSE IF Head(doc).id = id THEN filterOut(Tail(doc), id)
         ELSE <<Head(doc)>> \o filterOut(Tail(doc), id)

\* JSON.parse(JSON.stringify(doc)): a new array of new objects carrying the
\* enumerable fields of each block
deepCopy(doc) ==
    [i \in 1..Len(doc) |->
        [id |-> doc[i].id, content |-> doc[i].content, type |-> doc[i].type]]

Block(id, content) == [id |-> id, content |-> content, type |-> "text"]

\* The hook's mutable state as one value, so that several callbacks of one
\* event can be applied in sequence.
Store ==
    [blocks |-> blocks, history |-> history, historyIndex |-> historyIndex,
     isUndoRedo |-> isUndoRedo, focusBlockId |-> focusBlockId,
     cursorPosition |-> cursorPosition]

Commit(st) ==
    /\ blocks' = st.blocks
    /\ history' = st.history
    /\ historyIndex' = st.historyIndex
    /\ isUndoRedo' = st.isUndoRedo
    /\ focusBlockId' = st.focusBlockId
    /\ cursorPosition' = st.cursorPosition

----------------------------------------------------------------------------
(* useBlocks: history *)

\* saveToHistory limiting the log to its oldest entries instead of the newest
saveToHistory_keepsOldest(st, hi, newBlocks) ==
    IF st.isUndoRedo
    THEN [st EXCEPT !.isUndoRedo = FALSE]
    ELSE LET pushed == Append(slice(st.history, 0, hi + 1), deepCopy(newBlocks))
             limited == slice(pushed, 0, MAX_HISTORY_SIZE)
         IN  [st EXCEPT !.history = limited, !.historyIndex = Len(limited) - 1]

\* saveToHistory writing the Document over the entry under the cursor
saveToHistory_overwritesEntry(st, hi, newBlocks) ==
    IF st.isUndoRedo
    THEN [st EXCEPT !.isUndoRedo = FALSE]
    ELSE [st EXCEPT !.history[hi + 1] = deepCopy(newBlocks)]

\* saveToHistory(newBlocks) as created by a render whose historyIndex was hi
saveToHistory(st, hi, newBlocks) ==
    IF st.isUndoRedo
    THEN [st EXCEPT !.isUndoRedo = FALSE]
    ELSE LET truncated == slice(st.history, 0, hi + 1)
             pushed == Append(truncated, deepCopy(newBlocks))
             limited == IF Len(pushed) > MAX_HISTORY_SIZE
                        THEN sliceLast(pushed, MAX_HISTORY_SIZE)
                        ELSE pushed
         IN  [st EXCEPT !.history = limited, !.historyIndex = Len(limited) - 1]

\* undo() restoring the entry under the cursor instead of the one before it
undo_restoresCurrentEntry(st, hi) ==
    IF hi > 0
    THEN [st EXCEPT !.isUndoRedo = TRUE,
                    !.historyIndex = hi - 1,
                    !.blocks = deepCopy(st.history[hi + 1])]
    ELSE st

\* undo() discarding the entries after the one it restores
undo_dropsRedoTail(st, hi) ==
    IF hi > 0
    THEN LET newIndex == hi - 1
         IN  [st EXCEPT !.isUndoRedo = TRUE,
                        !.historyIndex = newIndex,
                        !.history = slice(@, 0, newIndex + 1),
                        !.blocks = deepCopy(st.history[newIndex + 1])]
    ELSE st

undo(st, hi) ==
    IF hi > 0
    THEN LET newIndex == hi - 1
         IN  [st EXCEPT !.isUndoRedo = TRUE,
                        !.historyIndex = newIndex,
                        !.blocks = deepCopy(st.history[newIndex + 1])]
    ELSE st

\* redo() setting the replay flag before its test of the cursor
redo_flagsAlways(st, hi) ==
    IF hi < Len(st.history) - 1
    THEN LET newIndex == hi + 1
         IN  [st EXCEPT !.isUndoRedo = TRUE,
                        !.historyIndex = newIndex,
                        !.blocks = deepCopy(st.history[newIndex + 1])]
    ELSE [st EXCEPT !.isUndoRedo = TRUE]

redo(st, hi) ==
    IF hi < Len(st.history) - 1
    THEN LET newIndex == hi + 1
         IN  [st EXCEPT !.isUndoRedo = TRUE,
                        !.historyIndex = newIndex,
                        !.blocks = deepCopy(st.history[newIndex + 1])]
    ELSE st

canUndo == historyIndex > 0
canRedo == historyIndex < Len(history) - 1

----------------------------------------------------------------------------
(* useBlocks: mutations *)

updateBlock(st, hi, id, content) ==
    LET prev == st.blocks
        newBlocks == [i \in 1..Len(prev) |->
                        IF prev[i].id = id
                        THEN [prev[i] EXCEPT !.content = content]
                        ELSE prev[i]]
    IN  [saveToHistory(st, hi, newBlocks) EXCEPT !.blocks = newBlocks]

\* newId is the value generateId() returned for this call
addBlockAfter(st, hi, newId, afterId, content) ==
    LET prev == st.blocks
        newBlock == Block(newId, content)
        index == findIndex(prev, afterId)
        newBlocks == IF index = -1
                     THEN Append(prev, newBlock)
                     ELSE SubSeq(prev, 1, index + 1) \o <<newBlock>>
                          \o SubSeq(prev, index + 2, Len(prev))
    IN  [saveToHistory(st, hi, newBlocks) EXCEPT
            !.blocks = newBlocks,
            !.focusBlockId = newId,
            !.cursorPosition = 0]

\* deleteBlock without the test for the last block
deleteBlock_withoutLastGuard(st, hi, id) ==
    LET prev == st.blocks
        index == findIndex(prev, id)
    IN  IF index = -1 THEN st
        ELSE LET focused == IF index > 0
                            THEN [st EXCEPT
                                    !.focusBlockId = prev[index].id,
                                    !.cursorPosition = Len(prev[index].content)]
                            ELSE st
                 newBlocks == filterOut(prev, id)
             IN  [saveToHistory(focused, hi, newBlocks) EXCEPT !.blocks = newBlocks]

deleteBlock(st, hi, id) ==
    LET prev == st.blocks
        index == findIndex(prev, id)
    IN  IF Len(prev) <= 1 THEN st
        ELSE IF index = -1 THEN st
        ELSE LET focused == IF index > 0
                            THEN [st EXCEPT
                                    !.focusBlockId = prev[index].id,
                                    !.cursorPosition = Len(prev[index].content)]
                            ELSE st
                 newBlocks == filterOut(prev, id)
             IN  [saveToHistory(focused, hi, newBlocks) EXCEPT !.blocks = newBlocks]

\* mergeWithPrevious recording the Document when there is nothing to merge
mergeWithPrevious_recordsNoOp(st, hi, id) ==
    LET prev == st.blocks
        index == findIndex(prev, id)
    IN  IF index <= 0 THEN saveToHistory(st, hi, prev)
        ELSE LET currentBlock == prev[index + 1]
                 previousBlock == prev[index]
                 focused == [st EXCEPT
                                !.cursorPosition = Len(previousBlock.content),
                                !.focusBlockId = previousBlock.id]
                 mergedBlock == [previousBlock EXCEPT
                                    !.content = previousBlock.content
                                                \o currentBlock.content]
                 newBlocks == SubSeq(prev, 1, index - 1) \o <<mergedBlock>>
                              \o SubSeq(prev, index + 2, Len(prev))
             IN  [saveToHistory(focused, hi, newBlocks) EXCEPT !.blocks = newBlocks]

mergeWithPrevious(st, hi, id) ==
    LET prev == st.blocks
        index == findIndex(prev, id)
    IN  IF index <= 0 THEN st
        ELSE LET currentBlock == prev[index + 1]
                 previousBlock == prev[index]
                 focused == [st EXCEPT
                                !.cursorPosition = Len(previousBlock.content),
                                !.focusBlockId = previousBlock.id]
                 mergedBlock == [previousBlock EXCEPT
                                    !.content = previousBlock.content
                                                \o currentBlock.content]
                 newBlocks == SubSeq(prev, 1, index - 1) \o <<mergedBlock>>
                              \o SubSeq(prev, index + 2, Len(prev))
             IN  [saveToHistory(focused, hi, newBlocks) EXCEPT !.blocks = newBlocks]

----------------------------------------------------------------------------
(* useBlocks: focus relay *)

\* getFocusInfo(): the returned { id, position } and the store afterwards
getFocusInfoResult(st) == [id |-> st.focusBlockId, position |-> st.cursorPosition]
\* getFocusInfo leaving the request in place
getFocusInfo_keepsRequest(st) == st

getFocusInfo(st) == [st EXCEPT !.focusBlockId = NULL]

setFocusBlock(st, id, position) ==
    [st EXCEPT !.focusBlockId = id, !.cursorPosition = position]

----------------------------------------------------------------------------
(* Identifiers and initial documents *)

GenIdPool == <<"g1", "g2", "g3", "g4">>

\* generateId(): Math.random().toString(36).substring(2, 11) takes no
\* account of the ids in use; any value of the pool may come back.
generateId == {GenIdPool[i] : i \in 1..NumGenIds}

\* The Editor's INITIAL_CONTENT: blocks block-1, block-2, ... with text
INITIAL_CONTENT ==
    <<Block("block-1", <<"a">>), Block("block-2", <<" ">>), Block("block-3", <<"a">>)>>

\* useBlocks(initialBlocks) as a caller can start it: from a document with
\* text, or without an argument from one empty block with a generated id.
InitialDocs ==
    {SubSeq(INITIAL_CONTENT, 1, 2)}
    \cup {<<Block(g, <<>>)>> : g \in generateId}

\* ids a caller of the hook passes: ids of blocks and ids of no block
AllIds == {"block-1", "block-2"} \cup generateId

----------------------------------------------------------------------------
(* History variables *)

\* script follows a run that is N effective mutations, then N calls of
\* undo(), then N calls of redo(); any other order switches it off.
ScriptInit(doc) == [phase |-> "mut", n |-> 0, k |-> 0, initial |-> doc, final |-> doc]

ScriptAfter(kind, before, after) ==
    IF kind = "other" \/ script.phase = "off" THEN script
    ELSE IF kind = "mutation"
    THEN IF script.phase # "mut" THEN [script EXCEPT !.phase = "off"]
         ELSE IF before.blocks = after.blocks /\ before.history = after.history
              THEN script
              ELSE [script EXCEPT !.n = @ + 1, !.final = after.blocks]
    ELSE IF kind = "undo"
    THEN IF script.phase = "mut" /\ script.n >= 1
         THEN [script EXCEPT !.phase = "undo", !.k = 1]
         ELSE IF script.phase = "undo" /\ script.k < script.n
              THEN [script EXCEPT !.k = @ + 1]
              ELSE [script EXCEPT !.phase = "off"]
    ELSE IF kind = "redo"
    THEN IF script.phase = "undo" /\ script.k = script.n
         THEN [script EXCEPT !.phase = "redo", !.k = 1]
         ELSE IF script.phase = "redo" /\ script.k < script.n
              THEN [script EXCEPT !.k = @ + 1]
              ELSE [script EXCEPT !.phase = "off"]
    ELSE [script EXCEPT !.phase = "off"]

----------------------------------------------------------------------------
(* Editor: the rendered surface and the selection *)

\* The title element and the block elements are the nodes a Range can sit
\* in; a block element is named by its data-block-id.  The rendered text of
\* a block element is the content of its block (the sync effect,
\* Editor.tsx:207-220); the rendered text of the title is `title`.
TITLE == "<title>"
Missing == <<"<missing>">>

NL == "\n"
Whitespace == {" ", NL}

Editor ==
    [title |-> title, isRewriting |-> isRewriting, selectionInfo |-> selectionInfo,
     skipInputHandling |-> skipInputHandling, pending |-> pending]

\* text of the first element matching [data-block-id="id"], or of the title
nodeText(doc, ttl, node) ==
    IF node = TITLE THEN ttl
    ELSE IF findIndex(doc, node) = -1 THEN Missing
    ELSE doc[findIndex(doc, node) + 1].content

\* String.prototype.trim()
RECURSIVE trimStart(_)
trimStart(t) ==
    IF t # <<>> /\ Head(t) \in Whitespace THEN trimStart(Tail(t)) ELSE t

RECURSIVE trimEnd(_)
trimEnd(t) ==
    IF t # <<>> /\ t[Len(t)] \in Whitespace
    THEN trimEnd(SubSeq(t, 1, Len(t) - 1))
    ELSE t

trim(t) == trimEnd(trimStart(t))

Range(sc, so, ec, eo) ==
    [startContainer |-> sc, startOffset |-> so, endContainer |-> ec, endOffset |-> eo]

\* The selections the user can have made: inside the title, or inside the
\* blocks container from a point in one block to a later point.
Selections(doc, ttl) ==
    {Range(TITLE, s, TITLE, e) : <<s, e>> \in
        {o \in (0..Len(ttl)) \X (0..Len(ttl)) : o[1] <= o[2]}}
    \cup UNION {
        {Range(doc[ij[1]].id, o[1], doc[ij[2]].id, o[2]) : o \in
            {o \in (0..Len(doc[ij[1]].content)) \X (0..Len(doc[ij[2]].content)) :
                ij[1] = ij[2] => o[1] <= o[2]}} :
        ij \in {ij \in (1..Len(doc)) \X (1..Len(doc)) :
                  /\ ij[1] <= ij[2]
                  /\ findIndex(doc, doc[ij[1]].id) = ij[1] - 1
                  /\ findIndex(doc, doc[ij[2]].id) = ij[2] - 1}}

isCollapsed(r) ==
    r.startContainer = r.endContainer /\ r.startOffset = r.endOffset

RECURSIVE joinLines(_, _, _)
joinLines(doc, i, j) ==
    IF i > j THEN <<>>
    ELSE doc[i].content \o <<NL>> \o joinLines(doc, i + 1, j)

\* Selection.toString(): the selected text, block boundaries as line breaks
toString(doc, ttl, r) ==
    IF r.startContainer = r.endContainer
    THEN SubSeq(nodeText(doc, ttl, r.startContainer), r.startOffset + 1, r.endOffset)
    ELSE LET i == findIndex(doc, r.startContainer) + 1
             j == findIndex(doc, r.endContainer) + 1
         IN  SubSeq(doc[i].content, r.startOffset + 1, Len(doc[i].content))
             \o <<NL>> \o joinLines(doc, i + 1, j - 1)
             \o SubSeq(doc[j].content, 1, r.endOffset)

\* findBlockElement(node): the data-block-id of the enclosing block element,
\* NULL when the walk up the parents finds none
findBlockElement(node) == IF node = TITLE THEN NULL ELSE node

RECURSIVE idsFromTo(_, _, _)
idsFromTo(doc, i, j) ==
    IF i > j THEN <<>> ELSE <<doc[i + 1].id>> \o idsFromTo(doc, i + 1, j)

getBlocksInRange(doc, r) ==
    LET startId == findBlockElement(r.startContainer)
        endId == findBlockElement(r.endContainer)
    IN  IF startId = NULL \/ endId = NULL THEN <<>>
        ELSE IF startId = endId THEN <<startId>>
        ELSE LET startIndex == findIndex(doc, startId)
                 endIndex == findIndex(doc, endId)
             IN  IF startIndex = -1 \/ endIndex = -1 THEN <<>>
                 ELSE idsFromTo(doc, startIndex, endIndex)

----------------------------------------------------------------------------
(* services/ai.ts *)

\* two of the six RewriteAction values; the action only selects the prompt
RewriteActions == {"add-references", "simplify-field"}

\* Texts the service can answer with
RawResponses == {<<"a">>, <<" ", "a">>, <<" ">>}

\* What client.messages.create can come back with: a text block, a block of
\* another type, or a rejection
Responses ==
    {[kind |-> "text", text |-> raw] : raw \in RawResponses}
    \cup {[kind |-> "tool_use", text |-> <<>>], [kind |-> "error", text |-> <<>>]}

\* rewriteText answering with an empty text where it should throw
rewriteText_swallowsFailure(response) ==
    [ok |-> TRUE, text |-> IF response.kind = "text" THEN trim(response.text) ELSE <<>>]

\* rewriteText(text, action): the trimmed text, or a throw
rewriteText(response) ==
    IF response.kind = "text"
    THEN [ok |-> TRUE, text |-> trim(response.text)]
    ELSE [ok |-> FALSE, text |-> <<>>]

----------------------------------------------------------------------------
(* Editor: event handlers as functions of the store *)

RemoveAt(q, i) == SubSeq(q, 1, i - 1) \o SubSeq(q, i + 1, Len(q))

splice(text, s, e, r) == SubSeq(text, 1, s) \o r \o SubSeq(text, e + 1, Len(text))

\* handleBlocksInput(): one updateBlock per rendered block element, in
\* document order, with the element's text.  dom is the rendered text.
RECURSIVE updateEach(_, _, _, _)
updateEach(st, hi, dom, k) ==
    IF k > Len(dom) THEN st
    ELSE updateEach(updateBlock(st, hi, dom[k].id, dom[k].content), hi, dom, k + 1)

handleBlocksInput(st, hi, skip, dom) ==
    IF skip THEN st ELSE updateEach(st, hi, dom, 1)

\* handleBlocksKeyDown, Enter: the selected text [s, e) of the block is
\* deleted, the block keeps the text before it and a new block gets the rest.
handleEnter(st, hi, newId, blockId, s, e) ==
    LET text == nodeText(st.blocks, <<>>, blockId)
        afterContent == SubSeq(text, e + 1, Len(text))
        currentContent == SubSeq(text, 1, s)
    IN  addBlockAfter(updateBlock(st, hi, blockId, currentContent),
                      hi, newId, blockId, afterContent)

\* handleBlocksKeyDown, Backspace at the start of a block
handleBackspace(st, hi, blockId) ==
    IF findIndex(st.blocks, blockId) > 0
    THEN mergeWithPrevious(st, hi, blockId)
    ELSE st

\* for (i = affected.length - 1; i > 0; i--) deleteBlock(affected[i])
RECURSIVE deleteDown(_, _, _, _)
deleteDown(st, hi, affected, i) ==
    IF i <= 0 THEN st
    ELSE deleteDown(deleteBlock(st, hi, affected[i + 1]), hi, affected, i - 1)

\* The offsets at which the captured Range sits when the response arrives.
\* A Range follows the edits of its nodes: it is where it was captured while
\* the text of its boundary nodes has not changed, and anywhere in them
\* (start before end) once it has.
RangeOffsets(p, startText, endText) ==
    IF p.intact
    THEN {<<p.range.startOffset, p.range.endOffset>>}
    ELSE {<<s, e>> \in (0..Len(startText)) \X (0..Len(endText)) :
            p.range.startContainer = p.range.endContainer => s <= e}

\* the multi-block branch removing the blocks that follow the first affected
\* block by their position instead of the affected blocks by their id
reconcileMulti_byPosition(st, p, rewrittenText, offs) ==
    LET affected == p.affectedBlockIds
        firstText == nodeText(st.blocks, <<>>, affected[1])
        lastText == nodeText(st.blocks, <<>>, affected[Len(affected)])
        newContent == SubSeq(firstText, 1, offs[1]) \o rewrittenText
                      \o SubSeq(lastText, offs[2] + 1, Len(lastText))
        updated == updateBlock(st, p.hi, affected[1], newContent)
        at == findIndex(updated.blocks, affected[1]) + 1
        newBlocks == SubSeq(updated.blocks, 1, at)
                     \o SubSeq(updated.blocks, at + Len(affected), Len(updated.blocks))
    IN  [saveToHistory(updated, p.hi, newBlocks) EXCEPT !.blocks = newBlocks]

\* handleSelectionAction after the await, multi-block branch
reconcileMulti(st, p, rewrittenText, offs) ==
    LET affected == p.affectedBlockIds
        firstText == nodeText(st.blocks, <<>>, affected[1])
        lastText == nodeText(st.blocks, <<>>, affected[Len(affected)])
        textBefore == SubSeq(firstText, 1, offs[1])
        textAfter == SubSeq(lastText, offs[2] + 1, Len(lastText))
        newContent == textBefore \o rewrittenText \o textAfter
    IN  deleteDown(updateBlock(st, p.hi, affected[1], newContent),
                   p.hi, affected, Len(affected) - 1)

\* the rendered blocks after execCommand('insertText') replaced the Range
domAfterInsert(doc, node, offs, rewrittenText) ==
    LET at == findIndex(doc, node) + 1
    IN  [k \in 1..Len(doc) |->
            IF k = at
            THEN [doc[k] EXCEPT !.content = splice(@, offs[1], offs[2], rewrittenText)]
            ELSE doc[k]]

\* handleSelectionAction without the test of the trimmed text
handleSelectionActionStart_acceptsBlank(ed, doc, hi, sel) ==
    IF sel.startContainer = NULL \/ isCollapsed(sel) \/ ed.isRewriting
    THEN ed
    ELSE [ed EXCEPT
            !.selectionInfo = <<[text |-> toString(doc, ed.title, sel), range |-> sel]>>,
            !.isRewriting = TRUE,
            !.pending = Append(@,
                [text |-> toString(doc, ed.title, sel),
                 affectedBlockIds |-> getBlocksInRange(doc, sel),
                 range |-> sel,
                 hi |-> hi,
                 blocks |-> doc,
                 intact |-> TRUE])]

\* handleSelectionAction without the isRewriting test of its first guard
handleSelectionActionStart_ignoresInFlight(ed, doc, hi, sel) ==
    IF sel.startContainer = NULL \/ isCollapsed(sel) \/ trim(toString(doc, ed.title, sel)) = <<>>
    THEN ed
    ELSE [ed EXCEPT
            !.selectionInfo = <<[text |-> toString(doc, ed.title, sel), range |-> sel]>>,
            !.isRewriting = TRUE,
            !.pending = Append(@,
                [text |-> toString(doc, ed.title, sel),
                 affectedBlockIds |-> getBlocksInRange(doc, sel),
                 range |-> sel,
                 hi |-> hi,
                 blocks |-> doc,
                 intact |-> TRUE])]

\* handleSelectionAction(action) up to its await: the Editor state after it
handleSelectionActionStart(ed, doc, hi, sel) ==
    IF sel.startContainer = NULL \/ isCollapsed(sel) \/ ed.isRewriting
    THEN ed
    ELSE LET selectedText == toString(doc, ed.title, sel)
         IN  IF trim(selectedText) = <<>>
             THEN ed
             ELSE [ed EXCEPT
                     !.selectionInfo = <<[text |-> selectedText, range |-> sel]>>,
                     !.isRewriting = TRUE,
                     !.pending = Append(@,
                         [text |-> selectedText,
                          affectedBlockIds |-> getBlocksInRange(doc, sel),
                          range |-> sel,
                          hi |-> hi,
                          blocks |-> doc,
                          intact |-> TRUE])]

\* The offsets the captured Range of the i-th pending call can have
OffsetChoices(doc, ttl, p) ==
    LET affected == p.affectedBlockIds
    IN  IF Len(affected) > 1
        THEN IF /\ findIndex(doc, affected[1]) # -1
                /\ findIndex(doc, affected[Len(affected)]) # -1
             THEN RangeOffsets(p, nodeText(doc, ttl, affected[1]),
                                  nodeText(doc, ttl, affected[Len(affected)]))
             ELSE {<<0, 0>>}
        ELSE IF nodeText(doc, ttl, p.range.startContainer) # Missing
        THEN RangeOffsets(p, nodeText(doc, ttl, p.range.startContainer),
                             nodeText(doc, ttl, p.range.startContainer))
        ELSE {<<0, 0>>}

\* a finally block that leaves the in-flight flag and the overlay state set
finallyIdle_leavesInFlight(ed, i) ==
    [ed EXCEPT !.pending = RemoveAt(@, i)]

\* the finally block of handleSelectionAction, for the i-th pending call
finallyIdle(ed, i) ==
    [ed EXCEPT !.isRewriting = FALSE,
               !.selectionInfo = <<>>,
               !.pending = RemoveAt(@, i)]

\* handleSelectionAction after its await (try / catch / finally), for the
\* i-th pending call.  hi is the historyIndex of the latest render (the input
\* handler that execCommand fires is the current one); the callbacks of the
\* multi-block branch are the captured ones.  When the block of a
\* single-block Range is gone the inserted text lands outside every block,
\* and the input event fires or not (inputFires).
handleSelectionActionSettle(st, ed, hi, i, result, offs, inputFires) ==
    LET p == ed.pending[i]
        affected == p.affectedBlockIds
        node == p.range.startContainer
        done == finallyIdle(ed, i)
        doneMulti == [done EXCEPT !.skipInputHandling = TRUE]
    IN  IF ~result.ok
        THEN [st |-> st, ed |-> done, path |-> "Failed"]
        ELSE IF Len(affected) > 1
        THEN IF /\ findIndex(st.blocks, affected[1]) # -1
                /\ findIndex(st.blocks, affected[Len(affected)]) # -1
             THEN [st |-> reconcileMulti(st, p, result.text, offs),
                   ed |-> doneMulti, path |-> "Multi"]
             ELSE [st |-> st, ed |-> doneMulti, path |-> "Skipped"]
        ELSE IF node = TITLE
        THEN [st |-> st,
              ed |-> [done EXCEPT !.title = splice(@, offs[1], offs[2], result.text)],
              path |-> "Title"]
        ELSE IF findIndex(st.blocks, node) # -1
        THEN [st |-> handleBlocksInput(st, hi, ed.skipInputHandling,
                         domAfterInsert(st.blocks, node, offs, result.text)),
              ed |-> done, path |-> "Single"]
        ELSE IF inputFires
        THEN [st |-> handleBlocksInput(st, hi, ed.skipInputHandling, st.blocks),
              ed |-> done, path |-> "Single"]
        ELSE [st |-> st, ed |-> done, path |-> "Skipped"]

----------------------------------------------------------------------------
(* Events.  Each is one handler run to completion, followed by the render. *)

None == <<>>

NoRange == Range(NULL, 0, NULL, 0)

TitleTexts == {<<>>, <<"a">>}

\* A pending call's Range stops being where it was captured as soon as the
\* text of one of its boundary nodes changes.
MarkMoved(pend, doc, ttl) ==
    [i \in 1..Len(pend) |->
        [pend[i] EXCEPT !.intact =
            /\ @
            /\ nodeText(doc, ttl, pend[i].range.startContainer)
                 = nodeText(blocks, title, pend[i].range.startContainer)
            /\ nodeText(doc, ttl, pend[i].range.endContainer)
                 = nodeText(blocks, title, pend[i].range.endContainer)]]

Effective(st, ed) ==
    \/ st.blocks # blocks
    \/ st.history # history
    \/ ed.title # title

\* What lastCall holds of a call: the block id it was given, the text it
\* was given, the offsets it was given and the id it returned; index is the
\* 0-based position of the block element an Editor event happened in.
Call(id, content, position, end, ret) ==
    [id |-> id, index |-> -1, content |-> content, position |-> position,
     end |-> end, ret |-> ret]

NoCall == Call(NULL, <<>>, 0, 0, NULL)

\* One event: the store and the Editor state after the handler has run.
\* An event that changes nothing leaves the program where it was: the run
\* records it in lastOp and lastCall and is not continued from the record,
\* every continuation of it being a continuation of the state before it.
DoCall(op, kind, args, st, ed) ==
    /\ ~quiet
    /\ quiet' = /\ st = Store
                /\ ed = Editor
                /\ ScriptAfter(kind, Store, st) = script
    /\ Commit(st)
    /\ title' = ed.title
    /\ isRewriting' = ed.isRewriting
    /\ selectionInfo' = ed.selectionInfo
    /\ skipInputHandling' = ed.skipInputHandling
    /\ pending' = MarkMoved(ed.pending, st.blocks, ed.title)
    /\ lastOp' = op
    /\ lastCall' = args
    /\ edits' = IF Effective(st, ed) THEN edits + 1 ELSE edits
    /\ script' = ScriptAfter(kind, Store, st)

Do(op, kind, st, ed) == DoCall(op, kind, NoCall, st, ed)

\* The same, within the bound on the edits of a run
StepCall(op, kind, args, st, ed) ==
    /\ Effective(st, ed) => edits < MaxEdits
    /\ DoCall(op, kind, args, st, ed)

Step(op, kind, st, ed) == StepCall(op, kind, NoCall, st, ed)

InitEditor ==
    /\ title = <<>>
    /\ isRewriting = FALSE
    /\ selectionInfo = None
    /\ skipInputHandling = FALSE
    /\ pending = <<>>

InitStore(doc) ==
    /\ blocks = doc
    /\ history = <<doc>>
    /\ historyIndex = 0
    /\ isUndoRedo = FALSE
    /\ focusBlockId = NULL
    /\ cursorPosition = 0
    /\ lastOp = "init"
    /\ lastCall = NoCall
    /\ quiet = FALSE
    /\ edits = 0
    /\ script = ScriptInit(doc)

----------------------------------------------------------------------------
(* Spec: the useBlocks hook under any sequence of calls *)

Init == (\E doc \in InitialDocs : InitStore(doc)) /\ InitEditor

UpdateBlock ==
    \E id \in AllIds, content \in InputTexts :
        StepCall("updateBlock", "mutation", Call(id, content, 0, 0, NULL),
                 updateBlock(Store, historyIndex, id, content), Editor)

AddBlockAfter ==
    \E newId \in generateId, afterId \in AllIds, content \in InputTexts :
        StepCall("addBlockAfter", "mutation", Call(afterId, content, 0, 0, newId),
                 addBlockAfter(Store, historyIndex, newId, afterId, content), Editor)

DeleteBlock ==
    \E id \in AllIds :
        StepCall("deleteBlock", "mutation", Call(id, <<>>, 0, 0, NULL),
                 deleteBlock(Store, historyIndex, id), Editor)

MergeWithPrevious ==
    \E id \in AllIds :
        StepCall("mergeWithPrevious", "mutation", Call(id, <<>>, 0, 0, NULL),
                 mergeWithPrevious(Store, historyIndex, id), Editor)

\* updateBlock and addBlockAfter called in one event, as the Editor does on
\* Enter: the block at position i is split at offset k
Split ==
    \E i \in 1..Len(blocks), newId \in generateId :
        \E k \in 0..Len(blocks[i].content) :
            LET id == blocks[i].id
                s == blocks[i].content
            IN  StepCall("split", "mutation",
                         [Call(id, s, k, k, newId) EXCEPT !.index = i - 1],
                         addBlockAfter(
                             updateBlock(Store, historyIndex, id, SubSeq(s, 1, k)),
                             historyIndex, newId, id, SubSeq(s, k + 1, Len(s))),
                         Editor)

Undo == Step("undo", "undo", undo(Store, historyIndex), Editor)

Redo == Step("redo", "redo", redo(Store, historyIndex), Editor)

GetFocusInfo ==
    LET info == getFocusInfoResult(Store)
    IN  StepCall("getFocusInfo", "other", Call(NULL, <<>>, info.position, 0, info.id),
                 getFocusInfo(Store), Editor)

SetFocusBlock ==
    \E id \in AllIds, position \in 0..1 :
        StepCall("setFocusBlock", "other", Call(id, <<>>, position, 0, NULL),
                 setFocusBlock(Store, id, position), Editor)

Next ==
    \/ UpdateBlock
    \/ AddBlockAfter
    \/ DeleteBlock
    \/ MergeWithPrevious
    \/ Split
    \/ Undo
    \/ Redo
    \/ GetFocusInfo
    \/ SetFocusBlock

Spec == Init /\ [][Next]_vars

----------------------------------------------------------------------------
(* SpecEditor: the Editor with the unified contentEditable, its keyboard   *)
(* and input handlers and the rewrite workflow                             *)

InitEditorSpec == InitStore(INITIAL_CONTENT) /\ InitEditor

\* onInput of the blocks container: the user has typed in the block at
\* position i
HandleBlocksInput ==
    \E i \in 1..Len(blocks), content \in InputTexts :
        Step("handleBlocksInput", "input",
             handleBlocksInput(Store, historyIndex, skipInputHandling,
                               [blocks EXCEPT ![i].content = content]),
             Editor)

\* onKeyDown of the blocks container, Enter with the selection [s, e) in
\* the block at position i
HandleEnter ==
    \E i \in 1..Len(blocks), newId \in generateId :
        \E s \in 0..Len(blocks[i].content), e \in 0..Len(blocks[i].content) :
            /\ s <= e
            /\ findIndex(blocks, blocks[i].id) = i - 1
            /\ StepCall("handleEnter", "input",
                        [Call(blocks[i].id, <<>>, s, e, newId) EXCEPT !.index = i - 1],
                        handleEnter(Store, historyIndex, newId, blocks[i].id, s, e),
                        Editor)

\* onKeyDown of the blocks container, Backspace with the caret at the start
\* of the block at position i
HandleBackspace ==
    \E i \in 1..Len(blocks) :
        Step("handleBackspace", "input",
             handleBackspace(Store, historyIndex, blocks[i].id), Editor)

\* editorRef.current.undo() / redo() from the header
EditorUndo == Step("undo", "undo", undo(Store, historyIndex), Editor)

EditorRedo == Step("redo", "redo", redo(Store, historyIndex), Editor)

\* the effect that polls getFocusInfo() after a render
FocusEffect ==
    /\ focusBlockId # NULL
    /\ Step("getFocusInfo", "other", getFocusInfo(Store), Editor)

\* onInput of the title element
SetTitle ==
    \E t \in TitleTexts :
        /\ t # title
        /\ Step("setTitle", "other", Store, [Editor EXCEPT !.title = t])

\* setTimeout(() => { skipInputHandling.current = false }, 100)
SkipInputTimeout ==
    /\ skipInputHandling
    /\ Step("skipInputTimeout", "other", Store,
            [Editor EXCEPT !.skipInputHandling = FALSE])

\* handleSelectionAction(action) up to its await, with the selection sel:
\* the Editor state after it, and whether it issued the external call
TriggerOutcome(sel) ==
    LET ed == handleSelectionActionStart(Editor, blocks, historyIndex, sel)
        idle == [Editor EXCEPT !.isRewriting = FALSE]
    IN  [ed |-> ed,
         op |-> IF ed # Editor THEN "trigger"
                ELSE IF /\ isRewriting
                        /\ handleSelectionActionStart(idle, blocks, historyIndex, sel) # idle
                THEN "triggerInFlight"
                ELSE "triggerRejected"]

\* a click on an action of the selection menu, whatever the selection is
TriggerRewrite ==
    \E out \in {TriggerOutcome(sel) : sel \in Selections(blocks, title) \cup {NoRange}} :
        IF out.op = "trigger"
        THEN \E action \in RewriteActions : Step(out.op, "other", Store, out.ed)
        ELSE Step(out.op, "other", Store, Editor)

\* handleSelectionAction after its await: the service has answered
RewriteSettle ==
    \E i \in 1..Len(pending), response \in Responses :
        \E offs \in OffsetChoices(blocks, title, pending[i]),
           inputFires \in IF nodeText(blocks, title, pending[i].range.startContainer)
                               = Missing
                          THEN BOOLEAN ELSE {TRUE} :
            LET after == handleSelectionActionSettle(Store, Editor, historyIndex, i,
                             rewriteText(response), offs, inputFires)
            IN  StepCall(IF response.kind = "text"
                         THEN "rewrite" \o after.path
                         ELSE "rewriteFailed",
                         "rewrite",
                         Call(NULL, rewriteText(response).text, offs[1], offs[2], NULL),
                         after.st, after.ed)

NextEditor ==
    \/ HandleBlocksInput
    \/ HandleEnter
    \/ HandleBackspace
    \/ EditorUndo
    \/ EditorRedo
    \/ FocusEffect
    \/ SetTitle
    \/ SkipInputTimeout
    \/ TriggerRewrite
    \/ RewriteSettle

SpecEditor == InitEditorSpec /\ [][NextEditor]_vars

----------------------------------------------------------------------------
(* SpecSplitRewrite: the Editor where the user presses Enter with the      *)
(* caret in a block up to MaxSplits times and has selections that span     *)
(* several blocks rewritten                                                *)

SplitEnter ==
    \E i \in 1..Len(blocks), newId \in generateId :
        \E s \in 0..Len(blocks[i].content) :
            /\ edits < MaxSplits
            /\ findIndex(blocks, blocks[i].id) = i - 1
            /\ DoCall("handleEnter", "input", Call(blocks[i].id, <<>>, s, s, newId),
                      handleEnter(Store, historyIndex, newId, blocks[i].id, s, s),
                      Editor)

SplitTrigger ==
    \E out \in {TriggerOutcome(sel) : sel \in Selections(blocks, title)} :
        /\ out.op = "trigger"
        /\ Len(out.ed.pending[1].affectedBlockIds) > 1
        /\ \E action \in RewriteActions : Do(out.op, "other", Store, out.ed)

SplitSettle ==
    \E i \in 1..Len(pending), response \in Responses :
        \E offs \in OffsetChoices(blocks, title, pending[i]) :
            LET after == handleSelectionActionSettle(Store, Editor, historyIndex, i,
                             rewriteText(response), offs, TRUE)
            IN  /\ Effective(after.st, after.ed) => edits < MaxSplits + 1
                /\ DoCall(IF response.kind = "text"
                          THEN "rewrite" \o after.path
                          ELSE "rewriteFailed",
                          "rewrite",
                          Call(NULL, rewriteText(response).text, offs[1], offs[2], NULL),
                          after.st, after.ed)

NextSplitRewrite ==
    \/ SplitEnter
    \/ SplitTrigger
    \/ SplitSettle

SpecSplitRewrite == InitEditorSpec /\ [][NextSplitRewrite]_vars

----------------------------------------------------------------------------
(* SpecUndoRewrite: the Editor where the user has selections rewritten and *)
(* walks the history with undo and redo in between                         *)

UndoRewriteUndo ==
    /\ edits < MaxUndoRewrite
    /\ Do("undo", "undo", undo(Store, historyIndex), Editor)

UndoRewriteRedo ==
    /\ edits < MaxUndoRewrite
    /\ Do("redo", "redo", redo(Store, historyIndex), Editor)

UndoRewriteTrigger ==
    \E out \in {TriggerOutcome(sel) : sel \in Selections(blocks, title)} :
        /\ out.op = "trigger"
        /\ out.ed.pending[1].affectedBlockIds # <<>>
        /\ \E action \in RewriteActions : Do(out.op, "other", Store, out.ed)

UndoRewriteSettle ==
    \E i \in 1..Len(pending), response \in Responses :
        \E offs \in OffsetChoices(blocks, title, pending[i]) :
            LET after == handleSelectionActionSettle(Store, Editor, historyIndex, i,
                             rewriteText(response), offs, TRUE)
            IN  /\ Effective(after.st, after.ed) => edits < MaxUndoRewrite
                /\ DoCall(IF response.kind = "text"
                          THEN "rewrite" \o after.path
                          ELSE "rewriteFailed",
                          "rewrite",
                          Call(NULL, rewriteText(response).text, offs[1], offs[2], NULL),
                          after.st, after.ed)

\* setTimeout(() => { skipInputHandling.current = false }, 100)
UndoRewriteTimeout ==
    /\ skipInputHandling
    /\ Do("skipInputTimeout", "other", Store,
          [Editor EXCEPT !.skipInputHandling = FALSE])

NextUndoRewrite ==
    \/ UndoRewriteUndo
    \/ UndoRewriteRedo
    \/ UndoRewriteTimeout
    \/ UndoRewriteTrigger
    \/ UndoRewriteSettle

SpecUndoRewrite == InitEditorSpec /\ [][NextUndoRewrite]_vars

----------------------------------------------------------------------------
(* SpecUndoSplit: the Editor where the user joins blocks with Backspace,   *)
(* splits them with Enter and undoes in between                            *)

UndoSplitBackspace ==
    \E i \in 1..Len(blocks) :
        /\ edits < MaxUndoSplit
        /\ Do("handleBackspace", "input",
              handleBackspace(Store, historyIndex, blocks[i].id), Editor)

UndoSplitUndo ==
    /\ edits < MaxUndoSplit
    /\ Do("undo", "undo", undo(Store, historyIndex), Editor)

UndoSplitEnter ==
    \E i \in 1..Len(blocks), newId \in generateId :
        \E s \in 0..Len(blocks[i].content), e \in 0..Len(blocks[i].content) :
            /\ s <= e
            /\ edits < MaxUndoSplit
            /\ findIndex(blocks, blocks[i].id) = i - 1
            /\ DoCall("handleEnter", "input",
                      [Call(blocks[i].id, <<>>, s, e, newId) EXCEPT !.index = i - 1],
                      handleEnter(Store, historyIndex, newId, blocks[i].id, s, e),
                      Editor)

NextUndoSplit ==
    \/ UndoSplitBackspace
    \/ UndoSplitUndo
    \/ UndoSplitEnter

SpecUndoSplit == InitEditorSpec /\ [][NextUndoSplit]_vars

----------------------------------------------------------------------------
(* SpecLong: one block typed into N times, then N calls of undo(), then N  *)
(* calls of redo(), with N large enough to fill the History Log            *)

Digits == <<"0", "1", "2", "3", "4", "5", "6", "7", "8", "9">>

\* the text typed by the n-th edit: the decimal numeral of n
RECURSIVE Numeral(_)
Numeral(n) ==
    IF n < 10 THEN <<Digits[n + 1]>>
    ELSE Numeral(n \div 10) \o <<Digits[(n % 10) + 1]>>

LongDoc(n) == <<Block("block-1", Numeral(n))>>

InitLong == InitStore(LongDoc(0)) /\ InitEditor

LongType ==
    /\ script.phase = "mut"
    /\ script.n < MaxTyped
    /\ Do("updateBlock", "mutation",
          updateBlock(Store, historyIndex, "block-1", Numeral(script.n + 1)), Editor)

LongUndo ==
    /\ \/ script.phase = "mut" /\ script.n >= 1
       \/ script.phase = "undo" /\ script.k < script.n
    /\ Do("undo", "undo", undo(Store, historyIndex), Editor)

LongRedo ==
    /\ \/ script.phase = "undo" /\ script.k = script.n
       \/ script.phase = "redo" /\ script.k < script.n
    /\ Do("redo", "redo", redo(Store, historyIndex), Editor)

NextLong ==
    \/ LongType
    \/ LongUndo
    \/ LongRedo

SpecLong == InitLong /\ [][NextLong]_vars

----------------------------------------------------------------------------
(* Properties *)

MutationOps == {"updateBlock", "addBlockAfter", "deleteBlock", "mergeWithPrevious"}

\* C1 (Spec).  Redo invalidation: when undo() has just moved the cursor
\* back, a call of updateBlock, addBlockAfter, deleteBlock or
\* mergeWithPrevious that changes the Document leaves canRedo false.
\* The code does not do this: undo() leaves isUndoRedo set, and saveToHistory
\* spends the flag on the next mutation instead of recording it.
C1_RedoInvalidation ==
    [][(/\ lastOp = "undo"
        /\ isUndoRedo
        /\ lastOp' \in MutationOps
        /\ blocks' # blocks) => ~canRedo']_vars

\* C2 (SpecLong), as stated: after N separately recorded mutations, N calls
\* of undo() restore the initial Document and N calls of redo() afterwards
\* restore the final Document, for every N.
C2_RoundTripAnyN ==
    /\ (script.phase = "undo" /\ script.k = script.n) => blocks = script.initial
    /\ (script.phase = "redo" /\ script.k = script.n) => blocks = script.final

\* C2 (SpecLong), as the code has it: the round trip holds when the N
\* mutations and the initial entry fit the History Log, N <= MAX_HISTORY_SIZE - 1.
C2_RoundTripWithinCapacity ==
    script.n <= MAX_HISTORY_SIZE - 1 => C2_RoundTripAnyN

C2_Witness ==
    /\ script.phase = "redo"
    /\ script.k = script.n
    /\ script.n = MAX_HISTORY_SIZE - 1
    /\ blocks = script.final
    /\ blocks # script.initial

\* C3 (Spec).  The cursor is a valid index of the History Log and the entry
\* under it equals the displayed Document.  Fails in the code after undo()
\* or redo() followed by a mutation, which is displayed but not recorded.
C3_CursorEntryIsDocument ==
    /\ 0 <= historyIndex
    /\ historyIndex <= Len(history) - 1
    /\ history[historyIndex + 1] = blocks

\* C4 (Spec).  Every call of updateBlock, addBlockAfter, deleteBlock or
\* mergeWithPrevious that changes the Document appends an entry equal to the
\* resulting Document and moves the cursor onto it.  Fails in the code for
\* the first user mutation after undo() or redo().
C4_MutationIsRecorded ==
    [][(lastOp' \in MutationOps /\ blocks' # blocks) =>
          /\ historyIndex' = Len(history') - 1
          /\ history'[Len(history')] = blocks'
          /\ \/ Len(history') = historyIndex + 2
             \/ Len(history') = MAX_HISTORY_SIZE]_vars

\* C5 (Spec).  The Document never has zero blocks.  Fails in the code once
\* two blocks share an id (C6): deleteBlock filters both out.
C5_NeverEmpty == Len(blocks) >= 1

\* C6 (Spec).  No two blocks of the Document share an id.  Fails in the code
\* when generateId() returns an id that is in use.
C6_UniqueIds ==
    \A i, j \in 1..Len(blocks) : blocks[i].id = blocks[j].id => i = j

\* C7 (SpecLong).  The History Log never holds more than MAX_HISTORY_SIZE
\* entries; once more have been recorded it holds exactly the most recent
\* MAX_HISTORY_SIZE in recording order with the cursor on the newest, and
\* repeated undo() stops at the oldest of them.
C7_HistoryBound ==
    /\ Len(history) <= MAX_HISTORY_SIZE
    /\ (script.phase = "mut" /\ script.n >= MAX_HISTORY_SIZE) =>
          /\ Len(history) = MAX_HISTORY_SIZE
          /\ \A i \in 1..MAX_HISTORY_SIZE :
                history[i] = LongDoc(script.n - MAX_HISTORY_SIZE + i)
          /\ historyIndex = MAX_HISTORY_SIZE - 1
    /\ (/\ script.phase = "undo"
        /\ script.n >= MAX_HISTORY_SIZE
        /\ script.k >= MAX_HISTORY_SIZE - 1) =>
          /\ historyIndex = 0
          /\ blocks = LongDoc(script.n - MAX_HISTORY_SIZE + 1)
          /\ history[1] = blocks

C7_Witness ==
    /\ script.phase = "undo"
    /\ script.n > MAX_HISTORY_SIZE
    /\ script.k = script.n
    /\ Len(history) = MAX_HISTORY_SIZE
    /\ historyIndex = 0

\* C8 (SpecEditor).  While a rewrite is outstanding a further invocation of
\* the rewrite trigger issues no external call and leaves the Document, the
\* History Log and the in-flight flag unchanged; at most one call is ever
\* outstanding.
C8_InFlightExclusive ==
    /\ [](Len(pending) <= 1)
    /\ [][(isRewriting /\ lastOp' \in {"trigger", "triggerInFlight", "triggerRejected"}) =>
             /\ pending' = pending
             /\ isRewriting' = isRewriting
             /\ selectionInfo' = selectionInfo
             /\ UNCHANGED store_vars]_vars

C8_Witness ==
    /\ lastOp = "triggerInFlight"
    /\ isRewriting
    /\ Len(pending) = 1

\* C9 (SpecEditor).  The step in which the external rewrite call fails
\* leaves the Document, the History Log and its cursor as they were.
C9_FailureAppliesNothing ==
    [][lastOp' = "rewriteFailed" =>
          /\ blocks' = blocks
          /\ history' = history
          /\ historyIndex' = historyIndex]_vars

C9_Witness ==
    /\ lastOp = "rewriteFailed"
    /\ ~isRewriting
    /\ pending = <<>>
    /\ edits > 0

\* C10 (SpecEditor).  A trigger whose selection resolves to no block aborts
\* before the external call: no call is outstanding with an empty list of
\* affected blocks.  The code has no such test; a selection inside the title
\* goes through.
C10_UnresolvedSelectionAborts ==
    \A i \in 1..Len(pending) : pending[i].affectedBlockIds # <<>>

\* The Document the rewrite of the Range of the pending call p with the text
\* R is to give: the block the Range starts in holds the text before the
\* Range, R and the text after the Range, the blocks after it up to the
\* block the Range ends in are gone, the others are as they were.
ExpectedMulti(doc, p, R) ==
    LET i == findIndex(doc, p.range.startContainer) + 1
        j == findIndex(doc, p.range.endContainer) + 1
        textBefore == SubSeq(doc[i].content, 1, p.range.startOffset)
        textAfter == SubSeq(doc[j].content, p.range.endOffset + 1, Len(doc[j].content))
    IN  SubSeq(doc, 1, i - 1)
        \o <<[doc[i] EXCEPT !.content = textBefore \o R \o textAfter]>>
        \o SubSeq(doc, j + 1, Len(doc))

\* C11 (SpecSplitRewrite).  When a rewrite over more than one block succeeds
\* with the text R and the Document is as it was when the rewrite was
\* triggered, the first affected block becomes the text before the selection,
\* R and the text after the selection, the other affected blocks are removed
\* and the blocks outside the selection keep their content and order.  Fails
\* in the code once a block outside the selection shares its id with an
\* affected block (C6): deleteBlock removes it too.
C11_MultiBlockRewrite ==
    [][(/\ lastOp' = "rewriteMulti"
        /\ Len(pending) = 1
        /\ pending[1].blocks = blocks) =>
          blocks' = ExpectedMulti(blocks, pending[1], lastCall'.content)]_vars

SettleOps ==
    {"rewriteMulti", "rewriteSingle", "rewriteTitle", "rewriteSkipped", "rewriteFailed"}

\* every selection that is not collapsed and has text other than white space
\* is accepted by the rewrite trigger
AcceptsTrigger ==
    \A sel \in Selections(blocks, title) :
        (~isCollapsed(sel) /\ trim(toString(blocks, title, sel)) # <<>>) =>
            TriggerOutcome(sel).op = "trigger"

\* C12 (SpecEditor).  After the step in which the external call resolves or
\* fails the rewrite is back in Idle on the success path, the failure path and the
\* path where reconciliation is skipped: isRewriting is false, the overlay
\* selection state is cleared, no call is outstanding and a trigger is
\* accepted again.
C12_ReturnsToIdle ==
    lastOp \in SettleOps =>
        /\ ~isRewriting
        /\ selectionInfo = <<>>
        /\ pending = <<>>
        /\ AcceptsTrigger

C12_Witness ==
    /\ lastOp = "rewriteSkipped"
    /\ ~isRewriting
    /\ selectionInfo = <<>>
    /\ \E sel \in Selections(blocks, title) : TriggerOutcome(sel).op = "trigger"

\* C13 (Spec).  Splitting the block at position i with content s at offset
\* k gives two adjacent blocks with contents s[0..k) and s[k..] at position
\* i, the first with the id of the block and the second new, all other
\* blocks unchanged, and the Focus Request is the new block at offset 0.
\* Fails in the code when the block shares its id with an earlier block
\* (C6): updateBlock and addBlockAfter act on the id.
C13_Split ==
    [][lastOp' = "split" =>
          LET i == lastCall'.index + 1
              s == lastCall'.content
              k == lastCall'.position
          IN  /\ blocks' = SubSeq(blocks, 1, i - 1)
                           \o <<[blocks[i] EXCEPT !.content = SubSeq(s, 1, k)],
                                Block(lastCall'.ret, SubSeq(s, k + 1, Len(s)))>>
                           \o SubSeq(blocks, i + 1, Len(blocks))
              /\ focusBlockId' = lastCall'.ret
              /\ cursorPosition' = 0]_vars

\* C14 (Spec).  For a block at position i > 0, mergeWithPrevious(id) replaces
\* blocks i-1 and i by one block with the previous block's id and the two
\* contents joined, leaves the other blocks as they were and sets the Focus
\* Request to the previous block at the length of its content.  Fails in the
\* code when an earlier block has the same id (C6): the merge is done, or
\* dropped, at the first block with the id.
C14_Merge ==
    [][lastOp' = "mergeWithPrevious" =>
          \A i \in 2..Len(blocks) :
              blocks[i].id = lastCall'.id =>
                  /\ blocks' = SubSeq(blocks, 1, i - 2)
                               \o <<[blocks[i - 1] EXCEPT
                                       !.content = blocks[i - 1].content
                                                   \o blocks[i].content]>>
                               \o SubSeq(blocks, i + 1, Len(blocks))
                  /\ focusBlockId' = blocks[i - 1].id
                  /\ cursorPosition' = Len(blocks[i - 1].content)]_vars

\* C15 (Spec).  deleteBlock on the only block of a single-block Document
\* leaves the Document as it is and records no History Entry.
C15_DeleteLastGuard ==
    [][(/\ lastOp' = "deleteBlock"
        /\ Len(blocks) = 1
        /\ lastCall'.id = blocks[1].id) =>
          /\ blocks' = blocks
          /\ history' = history
          /\ historyIndex' = historyIndex]_vars

C15_Witness ==
    /\ lastOp = "deleteBlock"
    /\ quiet
    /\ Len(blocks) = 1
    /\ lastCall.id = blocks[1].id

FocusSettingOps ==
    {"addBlockAfter", "deleteBlock", "mergeWithPrevious", "split", "setFocusBlock"}

\* C16 (Spec).  getFocusInfo() returns the pending Focus Request, block id
\* and offset, and clears it; no request appears but by a focus-setting
\* operation, so a second getFocusInfo() without one in between returns no
\* block id.
C16_FocusAtMostOnce ==
    [][/\ lastOp' = "getFocusInfo" =>
            /\ lastCall'.ret = focusBlockId
            /\ lastCall'.position = cursorPosition
            /\ focusBlockId' = NULL
       /\ (lastOp = "getFocusInfo" /\ lastOp' = "getFocusInfo") =>
            lastCall'.ret = NULL
       /\ (focusBlockId = NULL /\ lastOp' \notin FocusSettingOps) =>
            focusBlockId' = NULL]_vars

C16_Witness ==
    /\ lastOp = "getFocusInfo"
    /\ quiet
    /\ lastCall.ret = NULL
    /\ lastCall.position > 0
    /\ focusBlockId = NULL

\* C17 (Spec).  updateBlock with an id that is not in the Document changes
\* nothing: the Document, the History Log, its cursor, canUndo and canRedo
\* stay as they were.  The code records a History Entry for it all the same.
C17_UpdateMissingIsNoOp ==
    [][(lastOp' = "updateBlock" /\ findIndex(blocks, lastCall'.id) = -1) =>
          /\ blocks' = blocks
          /\ history' = history
          /\ historyIndex' = historyIndex
          /\ canUndo' = canUndo
          /\ canRedo' = canRedo]_vars

\* C18 (Spec).  addBlockAfter(afterId, text) inserts one new block with a
\* fresh id and content text right after the block afterId, or at the end
\* when afterId is not found; the blocks there were keep ids, contents and
\* order, and the returned id is the new block's.  The id is not always
\* fresh in the code (C6).
C18_AddBlockAfter ==
    [][lastOp' = "addBlockAfter" =>
          LET index == findIndex(blocks, lastCall'.id)
              at == IF index = -1 THEN Len(blocks) ELSE index + 1
          IN  /\ blocks' = SubSeq(blocks, 1, at)
                           \o <<Block(lastCall'.ret, lastCall'.content)>>
                           \o SubSeq(blocks, at + 1, Len(blocks))
              /\ \A i \in 1..Len(blocks) : blocks[i].id # lastCall'.ret]_vars

\* C19 (Spec).  deleteBlock(id) on a block at position i > 0 sets the Focus
\* Request to the block before it at the length of that block's content;
\* on the first block it leaves the Focus Request as it is.  Fails in the
\* code when the block shares its id with an earlier block (C6).
C19_DeleteFocus ==
    [][lastOp' = "deleteBlock" =>
          \A i \in 1..Len(blocks) :
              blocks[i].id = lastCall'.id =>
                  IF i > 1
                  THEN /\ focusBlockId' = blocks[i - 1].id
                       /\ cursorPosition' = Len(blocks[i - 1].content)
                  ELSE /\ focusBlockId' = focusBlockId
                       /\ cursorPosition' = cursorPosition]_vars

\* C20 (Spec).  mergeWithPrevious on the first block, and mergeWithPrevious
\* or deleteBlock on an id that is not in the Document, change nothing: the
\* Document, the History Log, its cursor and the Focus Request are as they
\* were.
C20_SilentNoOps ==
    [][(\/ lastOp' = "mergeWithPrevious" /\ findIndex(blocks, lastCall'.id) <= 0
        \/ lastOp' = "deleteBlock" /\ findIndex(blocks, lastCall'.id) = -1) =>
          /\ blocks' = blocks
          /\ history' = history
          /\ historyIndex' = historyIndex
          /\ focusBlockId' = focusBlockId
          /\ cursorPosition' = cursorPosition]_vars

C20_Witness ==
    /\ lastOp = "mergeWithPrevious"
    /\ quiet
    /\ Len(blocks) >= 2
    /\ lastCall.id = blocks[1].id
    /\ focusBlockId # NULL

\* C21 (Spec).  undo() with the cursor at index 0 and redo() with the cursor
\* at the last index change nothing: Document, History Log, cursor and replay
\* flag are as they were.  canUndo holds exactly when the cursor is above 0,
\* which is when undo() acts; canRedo exactly when the cursor is below the
\* last index, which is when redo() acts.
C21_UndoRedoAtEnds ==
    [][/\ (lastOp' = "undo" /\ historyIndex = 0) =>
            UNCHANGED <<blocks, history, historyIndex, isUndoRedo>>
       /\ (lastOp' = "redo" /\ historyIndex = Len(history) - 1) =>
            UNCHANGED <<blocks, history, historyIndex, isUndoRedo>>
       /\ canUndo <=> historyIndex > 0
       /\ canUndo <=> undo(Store, historyIndex) # Store
       /\ canRedo <=> historyIndex < Len(history) - 1
       /\ canRedo <=> redo(Store, historyIndex) # Store]_vars

C21_Witness ==
    /\ lastOp = "redo"
    /\ quiet
    /\ historyIndex = Len(history) - 1
    /\ canUndo
    /\ ~isUndoRedo

\* C22 (SpecLong).  An undo() that acts moves the cursor back by exactly one and
\* makes the Document the entry at the new cursor; a redo() that acts moves
\* it forward by exactly one likewise; neither changes the History Log.
C22_UndoRedoWalk ==
    [][/\ (lastOp' = "undo" /\ historyIndex > 0) =>
            /\ historyIndex' = historyIndex - 1
            /\ blocks' = history[historyIndex' + 1]
            /\ history' = history
       /\ (lastOp' = "redo" /\ historyIndex < Len(history) - 1) =>
            /\ historyIndex' = historyIndex + 1
            /\ blocks' = history[historyIndex' + 1]
            /\ history' = history]_vars

C22_Witness ==
    /\ lastOp = "redo"
    /\ script.phase = "redo"
    /\ script.n = 3
    /\ script.k = 2
    /\ historyIndex = 2
    /\ Len(history) = 4
    /\ blocks = history[3]
    /\ blocks # history[2]

C24_RewriteIsRecorded ==
    [][(lastOp' \in {"rewriteMulti", "rewriteSingle"} /\ blocks' # blocks) =>
          /\ historyIndex' <= Len(history') - 1
          /\ history'[historyIndex' + 1] = blocks']_vars

\* C25 (SpecEditor).  A rewrite trigger with no selection, with a collapsed
\* selection or with a selection whose text is empty once trimmed is
\* rejected: handleSelectionAction returns before it calls the service, and
\* the in-flight flag, the overlay state and the Document stay as they were.
C25_BlankTriggerRejected ==
    /\ \A sel \in Selections(blocks, title) \cup {NoRange} :
          (\/ sel = NoRange
           \/ isCollapsed(sel)
           \/ trim(toString(blocks, title, sel)) = <<>>) =>
              handleSelectionActionStart(Editor, blocks, historyIndex, sel) = Editor
    /\ lastOp = "triggerRejected" => quiet

C25_Witness ==
    /\ lastOp = "triggerRejected"
    /\ quiet
    /\ ~isRewriting
    /\ \E sel \in Selections(blocks, title) :
          /\ ~isCollapsed(sel)
          /\ toString(blocks, title, sel) # <<>>
          /\ trim(toString(blocks, title, sel)) = <<>>
          /\ TriggerOutcome(sel).op = "triggerRejected"

\* C26 (SpecEditor).  Selection Mapper: for a selection that starts in the
\* block at position s and ends in the block at position e >= s,
\* getBlocksInRange returns the ids of the blocks s..e in document order,
\* one id for s = e, and no id twice.  Fails in the code when blocks share
\* an id (C6).
C26_SelectionMapper ==
    \A s, e \in 1..Len(blocks) :
        s <= e =>
            LET ids == getBlocksInRange(blocks, Range(blocks[s].id, 0, blocks[e].id, 0))
            IN  /\ ids = [k \in 1..(e - s + 1) |-> blocks[s + k - 1].id]
                /\ \A i, j \in 1..Len(ids) : ids[i] = ids[j] => i = j

\* the Document with the text [s, e) of the block named node replaced by R
ExpectedSingle(doc, node, s, e, R) ==
    LET at == findIndex(doc, node) + 1
    IN  [doc EXCEPT ![at].content = SubSeq(@, 1, s) \o R \o SubSeq(@, e + 1, Len(@))]

\* C27 (SpecEditor).  Single-block rewrite: when one block is affected and
\* the service answers R, the block's content becomes the text before the
\* selection, R and the text after the selection, and the other blocks are
\* as they were.  Stated for a Document that is as it was at the trigger.
C27_SingleBlockRewrite ==
    [][(/\ lastOp' = "rewriteSingle"
        /\ Len(pending) = 1
        /\ pending[1].blocks = blocks) =>
          blocks' = ExpectedSingle(blocks, pending[1].range.startContainer,
                                   lastCall'.position, lastCall'.end,
                                   lastCall'.content)]_vars

\* C28 (SpecEditor).  When a rewrite result is reconciled, the History
\* Entries up to the cursor, those recorded while the rewrite was in flight
\* among them, stay in the log in their order, and the rewrite's entry comes
\* after them.  Fails in the code: the multi-block branch records with the
\* historyIndex of the render that triggered the rewrite.
C28_InFlightEditsKept ==
    [][(lastOp' \in {"rewriteMulti", "rewriteSingle"} /\ blocks' # blocks) =>
          /\ Len(history') > historyIndex + 1
          /\ SubSeq(history', 1, historyIndex + 1) = SubSeq(history, 1, historyIndex + 1)
          /\ history'[Len(history')] = blocks']_vars

\* C29 (SpecUndoSplit).  A split, updateBlock and addBlockAfter of one
\* event, adds exactly one History Entry after the entry under the cursor,
\* equal to the Document after the split, and one undo() then restores the
\* Document as it was before the split.  Stated for a History Log below its
\* capacity.  Fails in the code when the Document before the split was not
\* recorded (C3, C4): undo() restores the entry, not that Document.
C29_SplitIsOneEntry ==
    [][(lastOp' = "handleEnter" /\ Len(history) < MAX_HISTORY_SIZE) =>
          /\ history' = SubSeq(history, 1, historyIndex + 1) \o <<blocks'>>
          /\ historyIndex' = Len(history') - 1
          /\ undo(Store', historyIndex').blocks = blocks]_vars

\* the blocks of doc whose ids are not in the list affected, in their order
RECURSIVE Outside(_, _)
Outside(doc, affected) ==
    IF doc = <<>> THEN <<>>
    ELSE IF \E k \in 1..Len(affected) : affected[k] = Head(doc).id
         THEN Outside(Tail(doc), affected)
         ELSE <<Head(doc)>> \o Outside(Tail(doc), affected)

\* C30 (SpecEditor).  Reconciliation of a multi-block rewrite touches the
\* captured affected blocks only: whatever was edited, inserted or deleted
\* during the await, the blocks whose ids are not in the captured list are
\* all there afterwards with their content and in their order; when the
\* first or the last captured id is gone the Document is left as it is.
C30_OnlyAffectedTouched ==
    [][(/\ lastOp' \in {"rewriteMulti", "rewriteSkipped"}
        /\ Len(pending) = 1
        /\ Len(pending[1].affectedBlockIds) > 1) =>
          /\ Outside(blocks', pending[1].affectedBlockIds)
               = Outside(blocks, pending[1].affectedBlockIds)
          /\ lastOp' = "rewriteSkipped" => blocks' = blocks]_vars

C30_Witness ==
    /\ lastOp = "rewriteMulti"
    /\ edits = 2
    /\ Len(history) = 2
    /\ title = <<>>
    /\ Len(blocks) = 3
    /\ \E i \in 1..Len(blocks) : blocks[i].id \in generateId

====
